---- MODULE Spec2Model ----
(***************************************************************************)
(* Model of paycheck_waterfall.allocations.allocate_paycheck.              *)
(*                                                                         *)
(* Numbers.  Every Python float of the program is modelled as an exact     *)
(* integer count of thousandths (a paycheck of 0.015 is 15, a bill of 0.03 *)
(* is 30, a goal value of 50.0 is 50000).  A quotient the code forms       *)
(* (value / 100, cap / desired_total) is kept as numerator and denominator *)
(* until it reaches _round2, which is the only place the code leaves the   *)
(* rationals.  For the magnitudes used here the binary floating-point      *)
(* error of the code's products is below 1e-15, far inside the 1e-12 nudge *)
(* of _round2, and no exact value lies within 1e-12 below a half cent, so  *)
(* round(x + 1e-12, 2) is "nearest cent, an exact half cent goes up".      *)
(* The one place where the floating-point error is not rounded away is the *)
(* sign of desired_total when the desired amounts cancel (some are         *)
(* negative): 0.01 + 0.02 - 0.03 is not 0.0 in binary floating point, and  *)
(* which side of 0.0 a sum falls on depends on the values and their order. *)
(* Step 3 therefore works in thousandths of the unit (Fine), and a sum of  *)
(* three or more non-zero terms that is exactly 0 is any of -1, 0, 1 there.*)
(* Run on the accepted calls of Init and of InitBills, the Python function *)
(* returns values this model returns.                                      *)
(***************************************************************************)
EXTENDS Integers, Sequences, FiniteSets

\* ---------------------------------------------------------------- bounds
\* The longest bill list of SpecBills and the longest goal list of Spec.
MaxBills == 3
MaxGoals == 4
\* The longest goal list of SpecBills and the longest bill list of Spec.
FewGoals == 1
FewBills == 1

\* One cent in thousandths: _round2 rounds to 2 decimal places.
Cent == 10

\* ---------------------------------------------------------------- inputs
\* 0.015 is a paycheck that three bills of 0.004 exhaust below the cent.
PaycheckAmounts == {-10, 0, 15, 20, 50}

BillChoices ==
    { [name |-> "Fee",  amount |-> 4],
      [name |-> "Rent", amount |-> 30],
      [name |-> "Refund", amount |-> -10] }

GoalChoices ==
    { [name |-> "A", type |-> "fixed",   value |-> 10],
      [name |-> "B", type |-> "fixed",   value |-> 20],
      [name |-> "Invest", type |-> "percent", value |-> 50000],
      [name |-> "Untyped", value |-> 50000],
      [name |-> "Bonus", type |-> "bonus", value |-> 20],
      [name |-> "Debt", type |-> "fixed", value |-> -10] }

PercentApply == {"gross", "remainder"}

SeqsUpTo(S, n) == UNION { [1..k -> S] : k \in 0..n }

\* ------------------------------------------------------------- arithmetic
\* _round2 of the rational n / d (d > 0), in thousandths: round(x + 1e-12, 2).
round2(n, d) == Cent * ((2 * n + Cent * d) \div (2 * Cent * d))

Min(a, b) == IF a <= b THEN a ELSE b

Abs(a) == IF a < 0 THEN -a ELSE a

\* dict.get(key, default)
Get(dict, key, default) == IF key \in DOMAIN dict THEN dict[key] ELSE default

\* sum(x[field] for x in seq)
SumOf(seq, field) ==
    LET acc[i \in 0..Len(seq)] ==
            IF i = 0 THEN 0 ELSE acc[i - 1] + seq[i][field]
    IN  acc[Len(seq)]

\* ------------------------------------------------------- step 1: the bills
\* One pass of the loop body: the allocation of a bill given the balance.
BillAlloc(remaining, b) == Min(remaining, Get(b, "amount", 0))

RECURSIVE FundBillsNoDecrement(_, _)
\* FundBills with `remaining -= alloc` left out.
FundBillsNoDecrement(remaining, bs) ==
    IF bs = <<>> THEN <<>>
    ELSE LET b        == bs[1]
             required == Get(b, "amount", 0)
             alloc    == BillAlloc(remaining, b)
         IN  << [name      |-> Get(b, "name", ""),
                 required  |-> round2(required, 1),
                 allocated |-> round2(alloc, 1),
                 remaining |-> round2(required - alloc, 1)] >>
             \o FundBillsNoDecrement(remaining, Tail(bs))

RECURSIVE FundBills(_, _)
\* bills_out of the loop over bs, started with the balance remaining.
FundBills(remaining, bs) ==
    IF bs = <<>> THEN <<>>
    ELSE LET b        == bs[1]
             required == Get(b, "amount", 0)
             alloc    == BillAlloc(remaining, b)
         IN  << [name      |-> Get(b, "name", ""),
                 required  |-> round2(required, 1),
                 allocated |-> round2(alloc, 1),
                 remaining |-> round2(required - alloc, 1)] >>
             \o FundBills(remaining - alloc, Tail(bs))

RECURSIVE RemainingAfter(_, _)
\* the balance `remaining` when the loop over bs ends (not yet rounded).
RemainingAfter(remaining, bs) ==
    IF bs = <<>> THEN remaining
    ELSE RemainingAfter(remaining - BillAlloc(remaining, bs[1]), Tail(bs))

\* ------------------------------------------------------- step 2: the goals
\* base_for_percent with percent_apply ignored.
base_always_gross(paycheck, apply, rab) == paycheck

base_for_percent(paycheck, apply, rab) ==
    IF apply = "gross" THEN paycheck ELSE rab

\* GoalType with "fixed" as the default of a missing type.
GoalTypeDefaultFixed(g) == Get(g, "type", "fixed")

\* gtype = g.get("type", "percent")
GoalType(g) == Get(g, "type", "percent")

\* desired of one goal; a percent value v is v/1000 percent, so
\* pct * base = (v / 1000 / 100) * base.
Desired(g, base) ==
    IF GoalType(g) = "percent"
    THEN round2(Get(g, "value", 0) * base, 100 * 1000)
    ELSE round2(Get(g, "value", 0), 1)

GoalsDesired(gs, base) ==
    [ i \in 1..Len(gs) |->
        [name      |-> Get(gs[i], "name", ""),
         type      |-> GoalType(gs[i]),
         value     |-> Get(gs[i], "value", 0),
         desired   |-> Desired(gs[i], base),
         allocated |-> 0] ]

\* ------------------------------------------------------ step 3: the capping
\* x in the unit of step 3, a thousandth of a thousandth.
Fine(x) == 1000 * x

\* desired_total = sum(g["desired"] for g in goals_desired), in Fine units:
\* the values the floating-point sum can have.
FloatSums(gd) ==
    LET exact   == SumOf(gd, "desired")
        nonzero == Cardinality({ i \in 1..Len(gd) : gd[i].desired # 0 })
    IN  IF exact = 0 /\ nonzero >= 3 THEN {-1, 0, 1} ELSE {Fine(exact)}

\* Cap without the min against desired_total.
CapIsRemaining(desired_total, rab) == rab

Cap(desired_total, rab) == Min(desired_total, rab)

NothingToAllocate(desired_total, cap) == desired_total <= 0 \/ cap <= 0

\* alloc = _round2(g["desired"] * factor), factor = cap / desired_total
ScaledAlloc(desired, cap, desired_total) == round2(desired * cap, desired_total)

Scaled(gd, cap, desired_total) ==
    [ i \in 1..Len(gd) |->
        [gd[i] EXCEPT !.allocated = ScaledAlloc(gd[i].desired, cap, desired_total)] ]

\* FixGap with the gap given to the last goal instead of the first.
FixGapLast(gd, cap) ==
    LET rounding_gap == round2(cap - Fine(SumOf(gd, "allocated")), Fine(1))
        n == Len(gd)
    IN  IF Abs(rounding_gap) >= Cent /\ gd # <<>>
        THEN [gd EXCEPT ![n].allocated = round2(gd[n].allocated + rounding_gap, 1)]
        ELSE gd

\* FixGap with the adjustment left out.
FixGapNone(gd, cap) == gd

\* the rounding gap goes to the first goal
FixGap(gd, cap) ==
    LET rounding_gap == round2(cap - Fine(SumOf(gd, "allocated")), Fine(1))
    IN  IF Abs(rounding_gap) >= Cent /\ gd # <<>>
        THEN [gd EXCEPT ![1].allocated = round2(gd[1].allocated + rounding_gap, 1)]
        ELSE gd

\* ---------------------------------------------------------------- state
VARIABLES paycheck_amount, bills, goals, percent_apply,
          pc, bills_out, goals_desired, guilt_free, meta

inputs == <<paycheck_amount, bills, goals, percent_apply>>
vars == <<paycheck_amount, bills, goals, percent_apply,
          pc, bills_out, goals_desired, guilt_free, meta>>

NoMeta == [paycheck |-> 0, remaining_after_bills |-> 0]

NotCalled ==
    /\ pc = "call"
    /\ bills_out = <<>>
    /\ goals_desired = <<>>
    /\ guilt_free = 0
    /\ meta = NoMeta

\* Calls with long goal lists, after at most FewBills bills.
Init ==
    /\ paycheck_amount \in PaycheckAmounts
    /\ bills \in SeqsUpTo(BillChoices, FewBills)
    /\ goals \in SeqsUpTo(GoalChoices, MaxGoals)
    /\ percent_apply \in PercentApply
    /\ NotCalled

\* Calls with long bill lists, and at most FewGoals goals.
InitBills ==
    /\ paycheck_amount \in PaycheckAmounts
    /\ bills \in SeqsUpTo(BillChoices, MaxBills)
    /\ goals \in SeqsUpTo(GoalChoices, FewGoals)
    /\ percent_apply \in PercentApply
    /\ NotCalled

\* Invalid with the boundary on the wrong side.
InvalidOrZero(paycheck) == paycheck <= 0

\* if paycheck_amount < 0
Invalid(paycheck) == paycheck < 0

\* The locals of a call when the branch of step 3 is taken, given
\* remaining_after_bills and the goals with their desired amounts;
\* desired_total and cap are in Fine units.
LocalsOf(rab, desired) ==
    { [remaining_after_bills |-> rab,
       goals_desired         |-> desired,
       desired_total         |-> total,
       cap                   |-> Cap(total, Fine(rab))] :
      total \in FloatSums(desired) }

\* The locals a call that passed the check of the paycheck can have after
\* steps 1 and 2 (each is computed once, as in the code).
Locals ==
    UNION { UNION { LocalsOf(rab, desired) :
                    desired \in { GoalsDesired(goals,
                                      base_for_percent(paycheck_amount,
                                                       percent_apply, rab)) } } :
            rab \in { round2(RemainingAfter(paycheck_amount, bills), 1) } }

\* return {"bills": ..., "goals": ..., "guilt_free": ..., "meta": ...}
Return(rab, gd, gf) ==
    /\ pc' = "returned"
    /\ bills_out' = FundBills(paycheck_amount, bills)
    /\ goals_desired' = gd
    /\ guilt_free' = round2(gf, 1)
    /\ meta' = [paycheck |-> round2(paycheck_amount, 1),
                remaining_after_bills |-> rab]
    /\ UNCHANGED inputs

\* raise ValueError("paycheck_amount must be non-negative")
Reject ==
    /\ pc = "call"
    /\ Invalid(paycheck_amount)
    /\ pc' = "raised"
    /\ UNCHANGED <<inputs, bills_out, goals_desired, guilt_free, meta>>

\* the call through the branch "nothing to allocate"
AllocateNothing ==
    /\ pc = "call"
    /\ ~Invalid(paycheck_amount)
    /\ \E l \in Locals :
          /\ NothingToAllocate(l.desired_total, l.cap)
          /\ Return(l.remaining_after_bills, l.goals_desired,
                    l.remaining_after_bills)

\* the call through the proportional branch
AllocateScaled ==
    /\ pc = "call"
    /\ ~Invalid(paycheck_amount)
    /\ \E l \in Locals :
          /\ ~NothingToAllocate(l.desired_total, l.cap)
          /\ \E gd \in {FixGap(Scaled(l.goals_desired, l.cap, l.desired_total),
                               l.cap)} :
                Return(l.remaining_after_bills, gd,
                       round2(l.remaining_after_bills - SumOf(gd, "allocated"), 1))

Next == Reject \/ AllocateNothing \/ AllocateScaled

Spec == Init /\ [][Next]_vars

SpecBills == InitBills /\ [][Next]_vars

\* ------------------------------------------------------------ properties
Returned == pc = "returned"

BillsAllocated == SumOf(bills_out, "allocated")

GoalsAllocated == SumOf(goals_desired, "allocated")

DesiredSum == SumOf(goals_desired, "desired")

RemainingAfterBillsOut == meta.remaining_after_bills

BillAmountsNonNegative == \A i \in 1..Len(bills) : Get(bills[i], "amount", 0) >= 0

GoalValuesNonNegative == \A j \in 1..Len(goals) : Get(goals[j], "value", 0) >= 0

\* a is the cent nearest to the rational n / d (d > 0), an exact half going up.
IsNearestCent(a, n, d) ==
    /\ a % Cent = 0
    /\ a - Cent \div 2 <= n \div d
    /\ n \div d < a + Cent \div 2

\* the basis of the percent goals, read off the call and its result
Basis == IF percent_apply = "gross" THEN paycheck_amount ELSE RemainingAfterBillsOut

\* desired is what a percent goal of this value gets: round2((value/100) * basis)
IsPercentDesired(desired, value) == IsNearestCent(desired, value * Basis, 100 * 1000)

\* desired is what a fixed goal of this value gets: round2(value)
IsFixedDesired(desired, value) == IsNearestCent(desired, value, 1)

\* C1: conservation.  In every returned result the bills' allocated, the goals'
\* allocated and guilt_free add up to round2(paycheck_amount) to within 0.01.
C1_Conservation ==
    Returned =>
        Abs(BillsAllocated + GoalsAllocated + guilt_free
            - round2(paycheck_amount, 1)) <= Cent

\* bill i of the result is underfunded
Underfunded(i) ==
    \/ bills_out[i].allocated < bills_out[i].required
    \/ bills_out[i].remaining > 0

BillsInOrder ==
    \A i, j \in 1..Len(bills_out) :
        (i < j /\ Underfunded(i)) => bills_out[j].allocated = 0

\* C2 as stated: in every returned result, for all positions i < j, if bill i
\* is underfunded then bill j is allocated 0.
C2_BillOrderingAnyBills == Returned => BillsInOrder

\* C2 amended: in every returned result of a call whose bill amounts are all
\* >= 0, for all positions i < j, if bill i is underfunded then bill j is
\* allocated 0.
C2_BillOrdering == (Returned /\ BillAmountsNonNegative) => BillsInOrder

\* a call with non-negative bills in which an underfunded bill is followed by
\* a bill that asks for money
C2_Witness ==
    /\ Returned
    /\ BillAmountsNonNegative
    /\ \E i, j \in 1..Len(bills_out) :
          i < j /\ Underfunded(i) /\ bills_out[i].allocated > 0
                /\ bills_out[j].required > 0

\* C3: non-negative outputs.  With paycheck_amount >= 0 and all bill amounts and
\* goal values >= 0, every bill's and every goal's allocated and guilt_free
\* are >= 0.
C3_NonNegativeOutputs ==
    (Returned /\ BillAmountsNonNegative /\ GoalValuesNonNegative) =>
        /\ \A i \in 1..Len(bills_out) : bills_out[i].allocated >= 0
        /\ \A j \in 1..Len(goals_desired) : goals_desired[j].allocated >= 0
        /\ guilt_free >= 0

\* C4: per-goal bound.  In every returned result every goal's allocated is at
\* most its desired, the first goal included.  Stated for the calls the data
\* model admits, with bill amounts and goal values >= 0: a goal of negative
\* desired is left at allocated 0 and is above its desired for that alone.
C4_PerGoalBound ==
    (Returned /\ BillAmountsNonNegative /\ GoalValuesNonNegative) =>
        \A j \in 1..Len(goals_desired) :
            goals_desired[j].allocated <= goals_desired[j].desired

\* C5: goal cap.  In every returned result the goals' allocated sum to at most
\* meta.remaining_after_bills (exactly, hence also within 0.01).
C5_GoalCap == Returned => GoalsAllocated <= RemainingAfterBillsOut

\* a call with a percent and a fixed goal whose desired total exceeds the funds
C5_Witness ==
    /\ Returned
    /\ \E j, k \in 1..Len(goals) :
          /\ goals_desired[j].type = "percent" /\ goals_desired[j].desired > 0
          /\ goals_desired[k].type = "fixed"
    /\ DesiredSum > RemainingAfterBillsOut
    /\ RemainingAfterBillsOut > 0
    /\ GoalsAllocated = RemainingAfterBillsOut

\* C6: scaling.  When the goals' total desired exceeds remaining_after_bills
\* and remaining_after_bills > 0, the allocated amounts sum to exactly
\* remaining_after_bills, guilt_free is 0, every goal but the first holds its
\* own scaled and rounded amount, and the first goal holds the rest.
C6_ScalingToAvailable ==
    (Returned /\ DesiredSum > RemainingAfterBillsOut /\ RemainingAfterBillsOut > 0) =>
        /\ GoalsAllocated = RemainingAfterBillsOut
        /\ guilt_free = 0
        /\ \A j \in 2..Len(goals_desired) :
              IsNearestCent(goals_desired[j].allocated,
                            goals_desired[j].desired * RemainingAfterBillsOut,
                            DesiredSum)

\* a scaled call in which the first goal took a rounding gap
C6_Witness ==
    /\ Returned
    /\ DesiredSum > RemainingAfterBillsOut
    /\ RemainingAfterBillsOut > 0
    /\ Len(goals_desired) >= 2
    /\ ~IsNearestCent(goals_desired[1].allocated,
                      goals_desired[1].desired * RemainingAfterBillsOut,
                      DesiredSum)

\* C7: the one error.  The call raises exactly when paycheck_amount < 0, with
\* no bill and no goal processed; a call with paycheck_amount >= 0 returns,
\* whatever the signs of its bill amounts and goal values.
C7_SingleErrorKind ==
    /\ pc = "raised" =>
          /\ paycheck_amount < 0
          /\ bills_out = <<>> /\ goals_desired = <<>> /\ meta = NoMeta
    /\ Returned =>
          /\ paycheck_amount >= 0
          /\ Len(bills_out) = Len(bills) /\ Len(goals_desired) = Len(goals)
    /\ pc = "call" => ENABLED Next

\* a rejected call that came with bills and goals
C7_Witness == pc = "raised" /\ bills # <<>> /\ goals # <<>>

\* an accepted call with a negative bill amount and a negative goal value
C7_NegativeAccepted ==
    /\ Returned
    /\ ~BillAmountsNonNegative
    /\ ~GoalValuesNonNegative

TypeMissing(g) == "type" \notin DOMAIN g

TypeUnknown(g) == "type" \in DOMAIN g /\ g.type \notin {"percent", "fixed"}

\* C8 as stated: a goal whose type is missing or unknown gets the desired of a
\* percent goal, round2((value/100) * basis).
C8_DefaultPercentAnyType ==
    Returned =>
        \A j \in 1..Len(goals) :
            (TypeMissing(goals[j]) \/ TypeUnknown(goals[j])) =>
                IsPercentDesired(goals_desired[j].desired, goals[j].value)

\* C8 amended: a goal whose type is missing gets the desired of a percent
\* goal, round2((value/100) * basis); a goal whose type is an unknown value
\* gets the desired of a fixed goal, round2(value).
C8_GoalTypeDefault ==
    Returned =>
        \A j \in 1..Len(goals) :
            /\ TypeMissing(goals[j]) =>
                  IsPercentDesired(goals_desired[j].desired, goals[j].value)
            /\ TypeUnknown(goals[j]) =>
                  IsFixedDesired(goals_desired[j].desired, goals[j].value)

\* a call with an untyped goal and a goal of unknown type, where reading either
\* the other way would give another desired
C8_Witness ==
    /\ Returned
    /\ \E j, k \in 1..Len(goals) :
          /\ TypeMissing(goals[j])
          /\ ~IsFixedDesired(goals_desired[j].desired, goals[j].value)
          /\ TypeUnknown(goals[k])
          /\ ~IsPercentDesired(goals_desired[k].desired, goals[k].value)

Max(a, b) == IF a >= b THEN a ELSE b

\* C9: percent basis.  A percent goal's desired is round2((value/100) * basis),
\* the basis being paycheck_amount under "gross" and remaining_after_bills
\* otherwise; a fixed goal's desired is round2(value) under either; and with
\* non-negative bills remaining_after_bills is the rounded balance
\* max(0, paycheck_amount - the bills' amounts).
C9_PercentBasis ==
    Returned =>
        /\ \A j \in 1..Len(goals) :
              /\ ("type" \in DOMAIN goals[j] /\ goals[j].type = "percent") =>
                    IsPercentDesired(goals_desired[j].desired, goals[j].value)
              /\ ("type" \in DOMAIN goals[j] /\ goals[j].type = "fixed") =>
                    IsFixedDesired(goals_desired[j].desired, goals[j].value)
        /\ BillAmountsNonNegative =>
              IsNearestCent(RemainingAfterBillsOut,
                            Max(0, paycheck_amount - SumOf(bills, "amount")), 1)

\* a "remainder" call whose bills took money, with a percent goal that wants
\* another amount than it would under "gross"
C9_Witness ==
    /\ Returned
    /\ percent_apply = "remainder"
    /\ RemainingAfterBillsOut > 0
    /\ \E j \in 1..Len(goals) :
          /\ "type" \in DOMAIN goals[j] /\ goals[j].type = "percent"
          /\ goals_desired[j].desired > 0
          /\ ~IsNearestCent(goals_desired[j].desired,
                            goals[j].value * paycheck_amount, 100 * 1000)

\* C10: full funding.  When the goals' total desired is positive and at most
\* remaining_after_bills, every goal is allocated its desired and guilt_free is
\* remaining_after_bills minus the total desired.
C10_FullFunding ==
    (Returned /\ DesiredSum > 0 /\ DesiredSum <= RemainingAfterBillsOut) =>
        /\ \A j \in 1..Len(goals_desired) :
              goals_desired[j].allocated = goals_desired[j].desired
        /\ guilt_free = RemainingAfterBillsOut - DesiredSum

\* a call with several goals that fit and leave money over
C10_Witness ==
    /\ Returned
    /\ Len(goals_desired) >= 2
    /\ DesiredSum > 0
    /\ DesiredSum < RemainingAfterBillsOut
    /\ guilt_free > 0

====
